---- MODULE Spec2Model ----
(***************************************************************************)
(* A model of the KMC social-network simulator: the categorical rate tree  *)
(* (cat_nodes.h: LeafNode, TreeNode) and the Analyzer's KMC loop           *)
(* (analyzer_main.cpp) with its SIGINT counter.                            *)
(*                                                                         *)
(* The main specifications of the module:                                  *)
(*   SpecTree    add/remove on a TreeNode<TreeNode<LeafNode>>              *)
(*   Spec        construction of the Analyzer and run_network_simulation,  *)
(*               in runs where no SIGINT arrives                           *)
(*   SpecSignal  the same program with SIGINT arriving at any moment       *)
(* The other specifications narrow or extend these for one part of the     *)
(* program each (sampling, the leaf table, the tweet bank, shifts, exit).  *)
(* Times are whole simulated minutes, rates are whole multiples of         *)
(* 1/RateDenom events per minute, so that every sum is exact.              *)
(***************************************************************************)
EXTENDS Integers, Sequences, FiniteSets, TLC

(***************************************************************************)
(* Bounds of the model.                                                    *)
(***************************************************************************)
\* number of element IDs offered to the rate tree (IDs 0..MaxElems-1)
MaxElems == 3
\* number of bins the classifier distinguishes at each level of the tree
NBins == 2
\* config.max_entities: the agents the network is preallocated for
max_entities == 3
\* follow-set pool slots preallocated per agent
FOLLOW_SET_MEM_PER_USER == 1
\* number of entity types in config.entity_types
NTypes == 2
\* the model stops starting steps after this many (the loop itself has no such bound)
MaxSteps == 3
\* number of elements whose classification changes while they are in the
\* tree (IDs 0..MaxReclassified-1)
MaxReclassified == 1
\* number of times the leaves' per-member rates change while the tree is in use
MaxRateChange == 1
\* number of tweets the bank is given
MaxTweets == 2
\* tree.n_bins() of the tweet bank: the age bins of state.config.tweet_obs
NTimeBins == 3
\* the simulated minutes the tweet bank is followed for after a tweet made
\* at time 0 has outlived tweet_observation.time_span
MaxOverSpan == 1

VARIABLES
    \* ---- rate tree (SpecTree) ----
    tree,        \* the root TreeNode: [total_rate, n_elems, cats]
    cls,         \* the classifier: element -> <<outer bin, inner bin>>
    call,        \* the last call made on the tree, the leaf or the bank, and
                 \*   what it returned
    \* ---- one leaf's hash set (SpecLeaf) ----
    table,       \* elems.rep.table: the hash slots of a LeafNode
    \* ---- tweet bank (SpecTweets) ----
    bank,        \* the tweets of the TimeDepRateTree, by id
    \* ---- analyzer (Spec) ----
    config,          \* ParsedConfig: initial_entities, use_barabasi,
                     \*   use_random_increment, follow_model
    pc,              \* where the program is: "idle", "init", "loop", "act",
                     \*   "advance", "done", "aborted", "crashed"
    CTRL_C_ATTEMPTS, \* the SIGINT counter
    DATA_TIME,       \* the ofstream DATA_TIME of the Analyzer: "open" or "closed"
    time,            \* state.time, in simulated minutes
    stats,           \* AnalysisStats
    network,         \* Network: n_entities and the preallocated Entity array
    grower,          \* follow_set_grower: pool slots handed out so far
    follow_ranks,    \* CategoryGrouper: entity -> follow-rank category (-1: none)
    tweet_ranks,     \* CategoryGrouper: entity -> tweet-rank category (-1: none)
    entity_lists,    \* entity_types[et].entity_list, one sequence per type
    last_entity_ID,  \* n_entities recorded at every time milestone
    N                \* step_analysis's local N: n_entities at the start of the step

treevars == <<tree, cls, call>>
datavars == <<tree, cls, call, table, bank>>
simvars == <<config, pc, CTRL_C_ATTEMPTS, DATA_TIME, time, stats, network, grower,
             follow_ranks, tweet_ranks, entity_lists, last_entity_ID, N>>
vars == <<tree, cls, call, table, bank, config, pc, CTRL_C_ATTEMPTS, DATA_TIME, time, stats,
          network, grower,
          follow_ranks, tweet_ranks, entity_lists, last_entity_ID, N>>

(***************************************************************************)
(* cat_nodes.h                                                             *)
(***************************************************************************)
Elems == 0 .. (MaxElems - 1)
Bins == 0 .. (NBins - 1)

\* levels of the tree: the root is at level TreeDepth, leaves at level 0
TreeDepth == 2

\* LeafNode(): total_rate = 0, empty hash set
LeafNode_new == [total_rate |-> 0, elems |-> {}]

\* TreeNode(): total_rate = 0, n_elems = 0, no bins
TreeNode_new == [total_rate |-> 0, n_elems |-> 0, cats |-> << >>]

\* a default-constructed SubCat of a node at the given level
SubCat_new(level) == IF level = 1 THEN LeafNode_new ELSE TreeNode_new

\* ClassifierT::classify at the node reached by path: the element's bin there
Classify(path, elem) == cls[elem][Len(path) + 1]

\* ClassifierT::get at the innermost level: the per-member rate of the leaf
\* reached by path <<outer bin, inner bin>>, as the state S gives it:
\* non-negative, and fixed as long as S.time is (time stays 0 wherever the
\* tree is used, except under SpecRateChange); at time 0 leaf <<0, 0>> has
\* rate 0
LeafRate(path) == 2 * path[1] + path[2] + time

\* int size() of a leaf
LeafNode_size(leaf) == Cardinality(leaf.elems)

\* LeafNode::insert: returns true if the element was unique
LeafNode_insert(leaf, elem) ==
    [node |-> [leaf EXCEPT !.elems = @ \cup {elem}],
     ok   |-> Cardinality(leaf.elems \cup {elem}) > Cardinality(leaf.elems)]

\* faulty variant: the rate is added to the leaf total even when the element was present
LeafNode_add_always(leaf, rate, elem) ==
    LET ins == LeafNode_insert(leaf, elem)
    IN  [node  |-> [ins.node EXCEPT !.total_rate = @ + rate],
         ok    |-> ins.ok,
         delta |-> IF ins.ok THEN rate ELSE 0]

\* LeafNode::add(N, rate, delta, elem)
LeafNode_add(leaf, rate, elem) ==
    LET ins == LeafNode_insert(leaf, elem)
    IN  IF ins.ok
        THEN [node  |-> [ins.node EXCEPT !.total_rate = @ + rate],
              ok    |-> TRUE,
              delta |-> rate]
        ELSE [node |-> ins.node, ok |-> FALSE, delta |-> 0]

\* faulty variant: the removal is reported and charged without looking at
\* what erase returned
LeafNode_remove_unchecked(leaf, rate, elem) ==
    [node  |-> [leaf EXCEPT !.elems = @ \ {elem},
                            !.total_rate = @ + (0 - rate)],
     ok    |-> TRUE,
     delta |-> 0 - rate]

\* LeafNode::remove(N, rate, delta, elem)
LeafNode_remove(leaf, rate, elem) ==
    IF elem \in leaf.elems
    THEN [node  |-> [leaf EXCEPT !.elems = @ \ {elem},
                                 !.total_rate = @ + (0 - rate)],
          ok    |-> TRUE,
          delta |-> 0 - rate]
    ELSE [node |-> leaf, ok |-> FALSE, delta |-> 0]

\* TreeNode::ensure_bin: cats.resize(bin + 1) when bin >= cats.size()
ensure_bin(cats, bin, level) ==
    IF bin >= Len(cats)
    THEN cats \o [i \in 1 .. (bin + 1 - Len(cats)) |-> SubCat_new(level)]
    ELSE cats

\* TreeNode::add(S, C, ret, elem) on a node at the given level, C being the
\* classifier reached by path; returns the node, the result and ret
RECURSIVE TreeNode_add(_, _, _, _)
TreeNode_add(node, level, path, elem) ==
    LET bin   == Classify(path, elem)
        cats1 == ensure_bin(node.cats, bin, level)
        sub   == IF level = 1
                 THEN LeafNode_add(cats1[bin + 1], LeafRate(Append(path, bin)), elem)
                 ELSE TreeNode_add(cats1[bin + 1], level - 1, Append(path, bin), elem)
    IN  IF sub.ok
        THEN [node  |-> [total_rate |-> node.total_rate + sub.delta,
                         n_elems    |-> node.n_elems + 1,
                         cats       |-> [cats1 EXCEPT ![bin + 1] = sub.node]],
              ok    |-> TRUE,
              delta |-> sub.delta]
        ELSE [node  |-> [node EXCEPT !.cats = [cats1 EXCEPT ![bin + 1] = sub.node]],
              ok    |-> FALSE,
              delta |-> 0]

\* TreeNode::remove(S, C, ret, elem)
RECURSIVE TreeNode_remove(_, _, _, _)
TreeNode_remove(node, level, path, elem) ==
    LET bin   == Classify(path, elem)
        cats1 == ensure_bin(node.cats, bin, level)
        sub   == IF level = 1
                 THEN LeafNode_remove(cats1[bin + 1], LeafRate(Append(path, bin)), elem)
                 ELSE TreeNode_remove(cats1[bin + 1], level - 1, Append(path, bin), elem)
    IN  IF sub.ok
        THEN [node  |-> [total_rate |-> node.total_rate + sub.delta,
                         n_elems    |-> node.n_elems - 1,
                         cats       |-> [cats1 EXCEPT ![bin + 1] = sub.node]],
              ok    |-> TRUE,
              delta |-> sub.delta]
        ELSE [node  |-> [node EXCEPT !.cats = [cats1 EXCEPT ![bin + 1] = sub.node]],
              ok    |-> FALSE,
              delta |-> 0]

\* int size() of a node at the given level
Node_size(node, level) == IF level = 0 THEN LeafNode_size(node) ELSE node.n_elems

\* rng.rand_int(n): an integer in [0, n)
RandInt(n) == IF n > 0 THEN 0 .. (n - 1) ELSE {0}

\* what random_uniform_bin returns after its failed ASSERT
ASSERT_FAILED == -1

\* random_uniform_bin, lines 333-340: the loop from bin i on with what is
\* left of num
RECURSIVE uniform_walk(_, _, _)
uniform_walk(cats, i, num) ==
    IF i >= Len(cats)
    THEN ASSERT_FAILED
    ELSE IF num - Len(cats) <= 0
         THEN i
         ELSE uniform_walk(cats, i + 1, num - Len(cats))

\* TreeNode::random_uniform_bin with num = rng.rand_int(size())
random_uniform_bin(node, num) == uniform_walk(node.cats, 0, num)

\* rng.genrand_real2() * total_rate: a real in [0, total_rate), drawn in
\* steps of 1/DrawDenom so that draws fall on and between the sums of rates
DrawDenom == 2
WeightedDraws(total_rate) ==
    IF total_rate > 0 THEN 0 .. (DrawDenom * total_rate - 1) ELSE {0}

\* random_weighted_bin, lines 345-352: the loop from bin i on with what is
\* left of num (on the 1/DrawDenom scale); past the last bin the ASSERT fails
\* on a node without bins, else the last bin is returned
RECURSIVE weighted_walk(_, _, _)
weighted_walk(cats, i, num) ==
    IF i >= Len(cats)
    THEN IF cats = << >> THEN ASSERT_FAILED ELSE Len(cats) - 1
    ELSE IF num - DrawDenom * cats[i + 1].total_rate <= 0
         THEN i
         ELSE weighted_walk(cats, i + 1, num - DrawDenom * cats[i + 1].total_rate)

\* TreeNode::random_weighted_bin with num = rng.genrand_real2() * total_rate
random_weighted_bin(node, num) == weighted_walk(node.cats, 0, num)

\* the results of a pick: failure, an element, or a failed ASSERT
PickFailed == [ok |-> FALSE, elem |-> -1, asserted |-> FALSE]
PickAsserted == [ok |-> FALSE, elem |-> -1, asserted |-> TRUE]
Picked(e) == [ok |-> TRUE, elem |-> e, asserted |-> FALSE]

\* LeafNode::pick_random_uniform / pick_random_weighted on the set of the
\* leaf's elements: the results over all draws
LeafNode_pick_random_uniform(leaf) ==
    IF leaf.elems = {} THEN {PickFailed} ELSE {Picked(e) : e \in leaf.elems}

\* TreeNode::pick_random_uniform on a node at the given level: the results
\* over all draws
RECURSIVE pick_random_uniform(_, _)
pick_random_uniform(node, level) ==
    IF level = 0
    THEN LeafNode_pick_random_uniform(node)
    ELSE IF node.cats = << >>
    THEN {PickFailed}
    ELSE UNION {LET bin == random_uniform_bin(node, num)
                IN  IF bin = ASSERT_FAILED
                    THEN {PickAsserted}
                    ELSE pick_random_uniform(node.cats[bin + 1], level - 1) :
                    num \in RandInt(node.n_elems)}

\* TreeNode::pick_random_weighted on a node at the given level: the results
\* over all draws
RECURSIVE pick_random_weighted(_, _)
pick_random_weighted(node, level) ==
    IF level = 0
    THEN LeafNode_pick_random_uniform(node)
    ELSE IF node.cats = << >>
    THEN {PickFailed}
    ELSE UNION {LET bin == random_weighted_bin(node, num)
                IN  IF bin = ASSERT_FAILED
                    THEN {PickAsserted}
                    ELSE pick_random_weighted(node.cats[bin + 1], level - 1) :
                    num \in WeightedDraws(node.total_rate)}

(***************************************************************************)
(* analyzer_main.cpp, analyzer.h                                           *)
(***************************************************************************)
\* static const int CTRL_C_ATTEMPTS_TO_ABORT
CTRL_C_ATTEMPTS_TO_ABORT == 4

\* the freshness window of a retweet, in simulated minutes
RETWEET_WINDOW == 2880

\* const int APPROX_MONTH
APPROX_MONTH == 24 * 60 * 30

\* the milestone period of step_time
TIME_CAT_FREQ == APPROX_MONTH

\* rates are whole multiples of 1/RateDenom events per simulated minute
RateDenom == RETWEET_WINDOW

\* config.max_time, in simulated minutes
max_time == RETWEET_WINDOW

\* config.max_analysis_steps, as documented in the INFILE
max_analysis_steps == MaxSteps - 2

\* follow models
RANDOM_FOLLOW == "RANDOM_FOLLOW"
PREFERENTIAL_FOLLOW == "PREFERENTIAL_FOLLOW"
ENTITY_FOLLOW == "ENTITY_FOLLOW"
RETWEET_FOLLOW == "RETWEET_FOLLOW"
FollowModels == {RANDOM_FOLLOW, PREFERENTIAL_FOLLOW, ENTITY_FOLLOW, RETWEET_FOLLOW}

\* the slots of the preallocated Entity array
EntityIds == 0 .. (max_entities - 1)
Types == 0 .. (NTypes - 1)

\* rng.rand_real_not0(): a real in (0,1], drawn in steps of 1/ProbDenom
ProbDenom == 2 * NTypes
RandReals == 1 .. ProbDenom

\* -log(rng.rand_real_not0()): a real >= 0, 0 when the draw is 1
LogDraws == {0, 1}

\* entity_types[et].prob_add and .prob_follow on the 1/ProbDenom scale:
\* every type equally likely
prob_add(et) == ProbDenom \div NTypes
prob_follow(et) == ProbDenom \div NTypes

\* vector<double> follow_probabilities: declared, never filled
follow_probabilities == << >>

\* a default-constructed Entity in the preallocated array
Entity_new ==
    [creation_time |-> 0, entity |-> -1, follow_set |-> << >>,
     follower_set |-> << >>, n_tweets |-> 0, n_retweets |-> 0, retweets |-> << >>]

\* capacity of an agent's ring buffer of recent retweets
RETWEETS_CAP == 1

\* AnalysisStats(): every field 0; the probabilities are kept as numerators
\* over event_rate
AnalysisStats_new ==
    [prob_add |-> 0, prob_follow |-> 0, prob_tweet |-> 0, prob_norm |-> 0,
     n_steps |-> 0, n_follows |-> 0, n_tweets |-> 0, n_retweets |-> 0,
     event_rate |-> 0]

\* the part of the state the entity mutation routines work on
World ==
    [network |-> network, grower |-> grower, follow_ranks |-> follow_ranks,
     tweet_ranks |-> tweet_ranks, entity_lists |-> entity_lists, stats |-> stats]

\* the elements of a sequence
Range(s) == {s[i] : i \in 1 .. Len(s)}

\* the sum of a sequence of numbers
RECURSIVE SeqSum(_)
SeqSum(s) == IF s = << >> THEN 0 ELSE Head(s) + SeqSum(Tail(s))

\* follow_set_grower's pool: preallocate(FOLLOW_SET_MEM_PER_USER * max_entities)
PoolSize == FOLLOW_SET_MEM_PER_USER * max_entities

\* MemPoolVectorGrower::add_if_possible(vec, x): appends x when the pool has
\* room and says whether it did
add_if_possible(pool, vec, x) ==
    IF pool < PoolSize
    THEN [pool |-> pool + 1, vec |-> Append(vec, x), ok |-> TRUE]
    ELSE [pool |-> pool, vec |-> vec, ok |-> FALSE]

\* CategoryGrouper: the category of a value (thresholds 0, 1, 2, ...: the
\* category is the value itself, the last category is open-ended)
CategoryOf(value) == IF value > max_entities THEN max_entities ELSE value

\* CategoryGrouper::categorize(id, value)
categorize(ranks, id, value) == [ranks EXCEPT ![id] = CategoryOf(value)]

\* Analyzer::handle_follow(actor, target)
handle_follow(w, actor, target) ==
    LET a1 == add_if_possible(w.grower, w.network.ent[actor].follow_set, target)
        n1 == [w.network EXCEPT !.ent[actor].follow_set = a1.vec]
        a2 == add_if_possible(a1.pool, n1.ent[target].follower_set, actor)
        n2 == [n1 EXCEPT !.ent[target].follower_set = a2.vec]
    IN  IF a1.ok
        THEN [w |-> [w EXCEPT !.network = n2, !.grower = a2.pool], ok |-> TRUE]
        ELSE [w |-> w, ok |-> FALSE]

\* the search loops of action_follow_entity (lines 208-221 and 225-236):
\* walk the bins from i on with what is left of rand_num; the set of entities
\* the loop may end on, -1 when it ends on none
RECURSIVE FollowWalk(_, _, _, _)
FollowWalk(i, rand_num, probs, members) ==
    IF i > Len(probs)
    THEN {-1}
    ELSE IF rand_num <= probs[i] /\ members[i] # {}
         THEN members[i]
         ELSE FollowWalk(i + 1, rand_num - probs[i], probs, members)

\* Retweets::check_recent: the most recent retweet of the buffer, if any
check_recent(buf) == IF buf = << >> THEN << >> ELSE << buf[Len(buf)] >>

\* Retweets::add: push, dropping the oldest entry of a full buffer
retweets_add(buf, rt) ==
    IF Len(buf) >= RETWEETS_CAP THEN Append(Tail(buf), rt) ELSE Append(buf, rt)

\* action_follow_entity, lines 187-252: the values entity_to_follow may take,
\* over all draws of the generator
FollowTargets(w, entity, n_entities, time_of_follow) ==
    IF config.follow_model = RANDOM_FOLLOW
    THEN RandInt(n_entities)
    ELSE IF config.follow_model = PREFERENTIAL_FOLLOW
    THEN LET n       == Len(follow_probabilities)
             members == [i \in 1 .. n |-> {e \in EntityIds : w.follow_ranks[e] = i - 1}]
             weights == [i \in 1 .. n |->
                            follow_probabilities[i] * Cardinality(members[i])]
             sum_of_weights == SeqSum(weights)
         IN  UNION {FollowWalk(1, r, weights, members) :
                        r \in 1 .. (IF sum_of_weights > 0 THEN sum_of_weights ELSE 1)}
    ELSE IF config.follow_model = ENTITY_FOLLOW
    THEN UNION {FollowWalk(1, r, [i \in 1 .. NTypes |-> prob_follow(i - 1)],
                           [i \in 1 .. NTypes |-> Range(w.entity_lists[i])]) :
                        r \in RandReals}
    ELSE \* RETWEET_FOLLOW
         LET recent == check_recent(w.network.ent[entity].retweets)
         IN  (IF recent # << >> /\ time_of_follow - recent[1].time < RETWEET_WINDOW
              THEN {recent[1].original_tweeter}
              ELSE {-1})
             \cup RandInt(n_entities)

\* faulty variant: the follow is made without checking for a self-follow
action_follow_entity_noselfcheck(w, entity, entity_to_follow) ==
    IF entity_to_follow # -1
    THEN LET h == handle_follow(w, entity, entity_to_follow)
         IN  IF h.ok
             THEN [h.w EXCEPT
                     !.follow_ranks = categorize(@, entity_to_follow,
                         Len(h.w.network.ent[entity_to_follow].follower_set)),
                     !.stats.n_follows = @ + 1]
             ELSE h.w
    ELSE w

\* action_follow_entity, lines 254-265: the follow of the chosen target
action_follow_entity(w, entity, entity_to_follow) ==
    IF entity # entity_to_follow /\ entity_to_follow # -1
    THEN LET h == handle_follow(w, entity, entity_to_follow)
         IN  IF h.ok
             THEN [h.w EXCEPT
                     !.follow_ranks = categorize(@, entity_to_follow,
                         Len(h.w.network.ent[entity_to_follow].follower_set)),
                     !.stats.n_follows = @ + 1]
             ELSE h.w
    ELSE w

\* action_followback(follower, followee): defined, called from nowhere
action_followback(w, follower, followee) ==
    LET h == handle_follow(w, followee, follower)
    IN  IF h.ok
        THEN [h.w EXCEPT
                !.follow_ranks = categorize(@, follower,
                    Len(h.w.network.ent[follower].follower_set)),
                !.stats.n_follows = @ + 1]
        ELSE h.w

\* action_create_entity, lines 167-176: the loop over entity_types that
\* finds the type of the draw rand_num, -1 if it runs out of types
entity_type(rand_num) ==
    LET RECURSIVE pick(_, _)
        pick(et, r) == IF et >= NTypes THEN -1
                       ELSE IF r <= prob_add(et) THEN et
                       ELSE pick(et + 1, r - prob_add(et))
    IN  pick(0, rand_num)

\* faulty variant: the entity gets its type but is not put in the list of
\* that type
create_entity_unlisted(w, creation_time, index, rand_num) ==
    LET et == entity_type(rand_num)
        n1 == [w.network EXCEPT !.ent[index].creation_time = creation_time]
    IN  IF et = -1
        THEN [w EXCEPT !.network = n1]
        ELSE [w EXCEPT
                !.network = [n1 EXCEPT !.ent[index].entity = et],
                !.follow_ranks = categorize(@, index, Len(n1.ent[index].follower_set))]

\* action_create_entity, lines 165-176: the entity gets its creation time
\* and, if the loop finds a type, its type, its place in the list of that
\* type and its follow-rank category
create_entity_typed(w, creation_time, index, rand_num) ==
    LET et == entity_type(rand_num)
        n1 == [w.network EXCEPT !.ent[index].creation_time = creation_time]
    IN  IF et = -1
        THEN [w EXCEPT !.network = n1]
        ELSE [w EXCEPT
                !.network = [n1 EXCEPT !.ent[index].entity = et],
                !.entity_lists[et + 1] = Append(@, index),
                !.follow_ranks = categorize(@, index, Len(n1.ent[index].follower_set))]

\* faulty variant: the tweet is counted, the agent is not re-categorized
action_tweet_nocategorize(w, entity) ==
    [w EXCEPT !.network.ent[entity].n_tweets = @ + 1]

\* action_tweet(entity)
action_tweet(w, entity) ==
    LET n == w.network.ent[entity].n_tweets + 1
    IN  [w EXCEPT !.network.ent[entity].n_tweets = n,
                  !.tweet_ranks = categorize(@, entity, n)]

\* action_retweet, lines 283-299: the values entity_retweeted may take
RetweetSources(w, entity, time_of_retweet) ==
    LET f == w.network.ent[entity].follow_set
        recent == check_recent(w.network.ent[entity].retweets)
    IN  (IF f # << >> THEN Range(f) ELSE {-1})
        \cup (IF recent # << >> /\ time_of_retweet - recent[1].time < RETWEET_WINDOW
              THEN {recent[1].original_tweeter}
              ELSE {-1})

\* action_retweet, lines 302-307: the audience network.follow_i(entity, i),
\* i < network.n_following(entity), each gets the retweet pushed
RECURSIVE push_audience(_, _, _, _)
push_audience(net, entity, i, rt) ==
    IF i > Len(net.ent[entity].follow_set)
    THEN net
    ELSE push_audience(
             [net EXCEPT !.ent[net.ent[entity].follow_set[i]].retweets =
                             retweets_add(@, rt)],
             entity, i + 1, rt)

\* action_retweet, lines 300-310
action_retweet(w, entity, entity_retweeted, time_of_retweet) ==
    IF entity_retweeted # -1
    THEN LET rt == [original_tweeter |-> entity_retweeted, time |-> time_of_retweet]
             n1 == push_audience(w.network, entity, 1, rt)
         IN  [w EXCEPT !.network = [n1 EXCEPT !.ent[entity].n_retweets = @ + 1],
                       !.stats.n_retweets = @ + 1]
    ELSE w

\* analyzer_rate_update(state): the raw rates of the four event classes and
\* their sum; the add rate is 0 once the network is full, every agent
\* follows, tweets and retweets at one unit
analyzer_rate_update(st, n_entities) ==
    LET r_add     == IF n_entities < max_entities THEN 1 ELSE 0
        r_follow  == n_entities
        r_tweet   == n_entities
        r_retweet == n_entities
    IN  [st EXCEPT !.prob_add = r_add, !.prob_follow = r_follow,
                   !.prob_tweet = r_tweet, !.prob_norm = r_retweet,
                   !.event_rate = r_add + r_follow + r_tweet + r_retweet]

\* analyzer_select_entity(state, type): an agent with a positive rate
analyzer_select_entity(n_entities) == 0 .. (n_entities - 1)

\* floor(a / b) for a >= 0, b > 0
Floor(a, b) == a \div b

(***************************************************************************)
(* Spec: the Analyzer is constructed, then run_network_simulation loops.   *)
(***************************************************************************)
AllConfigs ==
    [initial_entities     : 0 .. (max_entities + 1),
     use_barabasi         : BOOLEAN,
     use_random_increment : BOOLEAN,
     follow_model         : FollowModels]

\* the configurations explored: every follow model with and without
\* use_barabasi under the fixed time increment, the random increment under
\* the retweet model
Configs ==
    {c \in AllConfigs :
        c.use_random_increment => (c.follow_model = RETWEET_FOLLOW /\ ~c.use_barabasi)}

\* the configurations explored with interrupts
SignalConfigs ==
    {c \in AllConfigs : c.follow_model = RANDOM_FOLLOW /\ ~c.use_barabasi}

\* AnalysisState(config, seed) and Network::preallocate; in a program at
\* "init" the constructor of the Analyzer has opened DATA_TIME (line 93)
SimInit(p) ==
    /\ pc = p
    /\ CTRL_C_ATTEMPTS = 0
    /\ DATA_TIME = IF p = "init" THEN "open" ELSE "closed"
    /\ time = 0
    /\ stats = AnalysisStats_new
    /\ network = [n_entities |-> 0, ent |-> [e \in EntityIds |-> Entity_new]]
    /\ grower = 0
    /\ follow_ranks = [e \in EntityIds |-> -1]
    /\ tweet_ranks = [e \in EntityIds |-> -1]
    /\ entity_lists = [i \in 1 .. NTypes |-> << >>]
    /\ last_entity_ID = << >>
    /\ N = 0

\* no call has been made
NoCall == [op |-> "none", path |-> << >>, arg |-> 0, ok |-> FALSE, val |-> 0]

\* the leaf and the tweet bank while they are not in use
LeafIdle == table = << >>
BankIdle == bank = << >>

TreeIdle ==
    /\ tree = TreeNode_new
    /\ cls = [e \in Elems |-> <<0, 0>>]
    /\ call = NoCall
    /\ LeafIdle
    /\ BankIdle

Init ==
    /\ config \in Configs
    /\ SimInit("init")
    /\ TreeIdle

\* the mutation routines' result becomes the state
Commit(w) ==
    /\ network' = w.network
    /\ grower' = w.grower
    /\ follow_ranks' = w.follow_ranks
    /\ tweet_ranks' = w.tweet_ranks
    /\ entity_lists' = w.entity_lists
    /\ stats' = w.stats

\* action_create_entity(creation_time, index) for a slot of the array
action_create_entity(creation_time, index) ==
    \E rand_num \in RandReals :
        LET w1 == create_entity_typed(World, creation_time, index, rand_num)
        IN  \E entity_to_follow \in
                (IF config.use_barabasi
                 THEN FollowTargets(w1, index, index, creation_time)
                 ELSE {-1}) :
                LET w2 == action_follow_entity(w1, index, entity_to_follow)
                IN  Commit([w2 EXCEPT !.network.n_entities = @ + 1])

\* set_initial_entities: one iteration of the loop, i = n_entities
CreateInitial ==
    /\ pc = "init"
    /\ network.n_entities < config.initial_entities
    /\ network.n_entities < max_entities
    /\ action_create_entity(0, network.n_entities)
    /\ UNCHANGED <<datavars, config, DATA_TIME, pc, CTRL_C_ATTEMPTS, time, last_entity_ID, N>>

\* set_initial_entities past the preallocated array: network[i] is outside
\* the memory preallocate(max_entities) reserved. The writes to the entity
\* land in foreign memory; the program either dies on them or goes on,
\* appends the index to the list of the type drawn (the lists are vectors of
\* their own) and counts the entity.
CreateInitialBeyond ==
    /\ pc = "init"
    /\ network.n_entities < config.initial_entities
    /\ network.n_entities >= max_entities
    /\ \/ /\ pc' = "crashed"
          /\ UNCHANGED <<network, entity_lists>>
       \/ /\ network' = [network EXCEPT !.n_entities = @ + 1]
          /\ \E rand_num \in RandReals :
                LET et == entity_type(rand_num)
                IN  entity_lists' =
                        IF et = -1 THEN entity_lists
                        ELSE [entity_lists EXCEPT ![et + 1] = Append(@, network.n_entities)]
          /\ UNCHANGED pc
    /\ UNCHANGED <<datavars, config, DATA_TIME, CTRL_C_ATTEMPTS, time, stats, grower,
                   follow_ranks, tweet_ranks, last_entity_ID, N>>

\* the end of the constructor (analyzer_rate_update) and
\* ctrl_C_handler_install at the start of run_network_simulation
FinishInit ==
    /\ pc = "init"
    /\ network.n_entities >= config.initial_entities
    /\ stats' = analyzer_rate_update(stats, network.n_entities)
    /\ pc' = "loop"
    /\ UNCHANGED <<datavars, config, DATA_TIME, CTRL_C_ATTEMPTS, time, network, grower,
                   follow_ranks, tweet_ranks, entity_lists, last_entity_ID, N>>

\* faulty variant: the loop ignores the interrupt counter
LoopCondition_noctrl ==
    /\ time < max_time
    /\ network.n_entities < max_entities

\* faulty variant: the loop ignores max_time
LoopCondition_notime ==
    /\ network.n_entities < max_entities
    /\ CTRL_C_ATTEMPTS = 0

\* the condition of the while loop of run_network_simulation
LoopCondition ==
    /\ time < max_time
    /\ network.n_entities < max_entities
    /\ CTRL_C_ATTEMPTS = 0

\* the loop starts a step: step_analysis is entered, N = network.n_entities
LoopEnter ==
    /\ pc = "loop"
    /\ LoopCondition
    /\ stats.n_steps < MaxSteps
    /\ pc' = "act"
    /\ N' = network.n_entities
    /\ UNCHANGED <<datavars, config, DATA_TIME, CTRL_C_ATTEMPTS, time, stats, network, grower,
                   follow_ranks, tweet_ranks, entity_lists, last_entity_ID>>

\* the loop ends and run_network_simulation returns
LoopExit ==
    /\ pc = "loop"
    /\ ~LoopCondition
    /\ pc' = "done"
    /\ UNCHANGED <<datavars, config, DATA_TIME, CTRL_C_ATTEMPTS, time, stats, network, grower,
                   follow_ranks, tweet_ranks, entity_lists, last_entity_ID, N>>

\* faulty variant: the chain of tests leaves out the retweet slice
EventClass_noretweet(u_1) ==
    IF u_1 <= stats.prob_add THEN "add"
    ELSE IF u_1 <= stats.prob_add + stats.prob_follow THEN "follow"
    ELSE IF u_1 <= stats.prob_add + stats.prob_follow + stats.prob_tweet THEN "tweet"
    ELSE "none"

\* step_analysis, lines 344-360: the event class the draw u_1 selects, u_1
\* and the probabilities being numerators over event_rate
EventClass(u_1) ==
    IF u_1 <= stats.prob_add THEN "add"
    ELSE IF u_1 <= stats.prob_add + stats.prob_follow THEN "follow"
    ELSE IF u_1 <= stats.prob_add + stats.prob_follow + stats.prob_tweet THEN "tweet"
    ELSE IF u_1 <= stats.prob_add + stats.prob_follow + stats.prob_tweet
                     + stats.prob_norm THEN "retweet"
    ELSE "none"

\* the draws u_1 = rng.rand_real_not0() on the scale of event_rate
U1Draws == 1 .. (IF stats.event_rate > 0 THEN stats.event_rate ELSE 1)

StepUnchanged == UNCHANGED <<datavars, config, DATA_TIME, CTRL_C_ATTEMPTS, time,
                             last_entity_ID, N>>

\* step_analysis: the add event
StepAdd ==
    /\ pc = "act"
    /\ \E u_1 \in U1Draws : EventClass(u_1) = "add"
    /\ action_create_entity(time, N)
    /\ pc' = "advance"
    /\ StepUnchanged

\* step_analysis: the follow event
StepFollow ==
    /\ pc = "act"
    /\ \E u_1 \in U1Draws : EventClass(u_1) = "follow"
    /\ \E entity \in analyzer_select_entity(network.n_entities) :
        \E entity_to_follow \in FollowTargets(World, entity, N, time) :
            Commit(action_follow_entity(World, entity, entity_to_follow))
    /\ pc' = "advance"
    /\ StepUnchanged

\* step_analysis: the tweet event
StepTweet ==
    /\ pc = "act"
    /\ \E u_1 \in U1Draws : EventClass(u_1) = "tweet"
    /\ \E entity \in analyzer_select_entity(network.n_entities) :
        LET w1 == action_tweet(World, entity)
        IN  Commit([w1 EXCEPT !.stats.n_tweets = @ + 1])
    /\ pc' = "advance"
    /\ StepUnchanged

\* step_analysis: the retweet event
StepRetweet ==
    /\ pc = "act"
    /\ \E u_1 \in U1Draws : EventClass(u_1) = "retweet"
    /\ \E entity \in analyzer_select_entity(network.n_entities) :
        \E entity_retweeted \in RetweetSources(World, entity, time) :
            Commit(action_retweet(World, entity, entity_retweeted, time))
    /\ pc' = "advance"
    /\ StepUnchanged

\* faulty variant: the increment is subtracted
step_time_backwards(t, event_rate, log_draw) ==
    IF config.use_random_increment
    THEN t - Floor(log_draw * RateDenom, event_rate)
    ELSE t - Floor(RateDenom, event_rate)

\* step_time, lines 144-149: the new time
step_time(t, event_rate, log_draw) ==
    IF config.use_random_increment
    THEN t + Floor(log_draw * RateDenom, event_rate)
    ELSE t + Floor(RateDenom, event_rate)

\* step_analysis, lines 362-365: step_time(N), n_steps++, analyzer_rate_update
StepAdvance ==
    /\ pc = "advance"
    /\ \E log_draw \in LogDraws :
        /\ time' = step_time(time, stats.event_rate, log_draw)
        /\ last_entity_ID' =
              IF Floor(time', TIME_CAT_FREQ) > Floor(time, TIME_CAT_FREQ)
              THEN Append(last_entity_ID, N)
              ELSE last_entity_ID
    /\ stats' = analyzer_rate_update([stats EXCEPT !.n_steps = @ + 1],
                                     network.n_entities)
    /\ pc' = "loop"
    /\ N' = 0
    /\ UNCHANGED <<datavars, config, DATA_TIME, CTRL_C_ATTEMPTS, network, grower,
                   follow_ranks, tweet_ranks, entity_lists>>

\* faulty variant: the handler aborts one interrupt early
ctrl_C_handler_early(count) ==
    [count |-> count + 1, abort |-> count + 1 >= CTRL_C_ATTEMPTS_TO_ABORT]

\* ctrl_C_handler: the counter after the interrupt and whether error_exit is called
ctrl_C_handler(count) ==
    [count |-> count + 1, abort |-> count + 1 > CTRL_C_ATTEMPTS_TO_ABORT]

\* a SIGINT arrives while the handler is installed and the process lives
Interrupt ==
    /\ pc \in {"loop", "act", "advance", "done"}
    /\ LET h == ctrl_C_handler(CTRL_C_ATTEMPTS)
       IN  /\ CTRL_C_ATTEMPTS' = h.count
           /\ pc' = IF h.abort THEN "aborted" ELSE pc
    /\ UNCHANGED <<datavars, config, DATA_TIME, time, stats, network, grower,
                   follow_ranks, tweet_ranks, entity_lists, last_entity_ID, N>>

\* the program while no SIGINT arrives
Next ==
    \/ CreateInitial
    \/ CreateInitialBeyond
    \/ FinishInit
    \/ LoopEnter
    \/ LoopExit
    \/ StepAdd
    \/ StepFollow
    \/ StepTweet
    \/ StepRetweet
    \/ StepAdvance

Spec == Init /\ [][Next]_vars

\* the program with a user who may interrupt it at any moment
InitSignal ==
    /\ config \in SignalConfigs
    /\ SimInit("init")
    /\ TreeIdle

NextSignal ==
    \/ CreateInitial
    \/ CreateInitialBeyond
    \/ FinishInit
    \/ LoopEnter
    \/ LoopExit
    \/ StepAdd
    \/ StepFollow
    \/ StepTweet
    \/ StepRetweet
    \/ StepAdvance
    \/ Interrupt

SpecSignal == InitSignal /\ [][NextSignal]_vars

\* analyzer_main, lines 420-423: main() returns and the Analyzer, a local
\* of analyzer_main, goes out of scope; the destructor of its member
\* DATA_TIME closes the file
AnalyzerReturn ==
    /\ pc = "done"
    /\ pc' = "exited"
    /\ DATA_TIME' = "closed"
    /\ UNCHANGED <<datavars, config, CTRL_C_ATTEMPTS, time, stats, network, grower,
                   follow_ranks, tweet_ranks, entity_lists, last_entity_ID, N>>

\* the program with its interrupts, followed to the end of analyzer_main
NextExit ==
    \/ CreateInitial
    \/ CreateInitialBeyond
    \/ FinishInit
    \/ LoopEnter
    \/ LoopExit
    \/ StepAdd
    \/ StepFollow
    \/ StepTweet
    \/ StepRetweet
    \/ StepAdvance
    \/ Interrupt
    \/ AnalyzerReturn

SpecExit == InitSignal /\ [][NextExit]_vars

\* the configurations with the follow-back options of the INFILE:
\* analysis.use_followback and, per agent type, followback_probability
\* (0 or 1, on the 1/ProbDenom scale); the program reads neither
FollowbackConfigs ==
    [initial_entities       : 0 .. (max_entities + 1),
     use_barabasi           : {FALSE},
     use_random_increment   : {FALSE},
     follow_model           : {RANDOM_FOLLOW},
     use_followback         : BOOLEAN,
     followback_probability : [Types -> {0, ProbDenom}]]

InitFollowback ==
    /\ config \in FollowbackConfigs
    /\ SimInit("init")
    /\ TreeIdle

\* the program run on an INFILE that sets the follow-back options
SpecFollowback == InitFollowback /\ [][Next]_vars

(***************************************************************************)
(* SpecNoSelection: the KMC loop when analyzer_select_entity may find no   *)
(* entity and return -1.                                                   *)
(***************************************************************************)
\* analyzer_select_entity finding no entity
NO_SELECTION == -1

\* the selection of this step returned NO_SELECTION
NoSelectionCall ==
    [op |-> "analyzer_select_entity", path |-> << >>, arg |-> stats.n_steps,
     ok |-> FALSE, val |-> NO_SELECTION]

\* action_follow_entity(-1, N, time) when the accesses to network[-1] do
\* not stop the program and handle_follow's first add_if_possible, made on
\* the foreign follow_set, returns true: the target gets the follower -1,
\* is re-categorized and the follow is counted
follow_unselected(w, target) ==
    LET a1pool == IF w.grower < PoolSize THEN w.grower + 1 ELSE w.grower
        a2 == add_if_possible(a1pool, w.network.ent[target].follower_set, NO_SELECTION)
    IN  [w EXCEPT !.network.ent[target].follower_set = a2.vec,
                  !.grower = a2.pool,
                  !.follow_ranks = categorize(@, target, Len(a2.vec)),
                  !.stats.n_follows = @ + 1]

NoSelectionUnchanged ==
    UNCHANGED <<tree, cls, table, bank, config, DATA_TIME, CTRL_C_ATTEMPTS, time,
                last_entity_ID, N>>

\* step_analysis, lines 347-348, with entity = -1: network[-1] lies before
\* the preallocated array; the program dies on the access, or
\* handle_follow's first add fails and nothing is changed, or the follow is
\* made in the name of entity -1
StepFollowNoSelection ==
    /\ pc = "act"
    /\ \E u_1 \in U1Draws : EventClass(u_1) = "follow"
    /\ call' = NoSelectionCall
    /\ \/ /\ pc' = "crashed"
          /\ Commit(World)
       \/ /\ pc' = "advance"
          /\ Commit(World)
       \/ /\ pc' = "advance"
          /\ \E target \in FollowTargets(World, NO_SELECTION, N, time) \ {-1} :
                Commit(follow_unselected(World, target))
    /\ NoSelectionUnchanged

\* step_analysis, lines 350-352, with entity = -1: action_tweet increments
\* network[-1].n_tweets, outside the array; unless the program dies there,
\* stats.n_tweets is incremented
StepTweetNoSelection ==
    /\ pc = "act"
    /\ \E u_1 \in U1Draws : EventClass(u_1) = "tweet"
    /\ call' = NoSelectionCall
    /\ \/ /\ pc' = "crashed"
          /\ Commit(World)
       \/ /\ pc' = "advance"
          /\ Commit([World EXCEPT !.stats.n_tweets = @ + 1])
    /\ NoSelectionUnchanged

\* step_analysis, lines 353-355, with entity = -1: action_retweet reads the
\* follow_set and the retweets of network[-1]; the program dies, or finds
\* nothing to retweet, or counts a retweet
StepRetweetNoSelection ==
    /\ pc = "act"
    /\ \E u_1 \in U1Draws : EventClass(u_1) = "retweet"
    /\ call' = NoSelectionCall
    /\ \/ /\ pc' = "crashed"
          /\ Commit(World)
       \/ /\ pc' = "advance"
          /\ Commit(World)
       \/ /\ pc' = "advance"
          /\ Commit([World EXCEPT !.stats.n_retweets = @ + 1])
    /\ NoSelectionUnchanged

NextNoSelection ==
    \/ CreateInitial
    \/ CreateInitialBeyond
    \/ FinishInit
    \/ LoopEnter
    \/ LoopExit
    \/ StepAdd
    \/ StepFollow
    \/ StepTweet
    \/ StepRetweet
    \/ StepTweetNoSelection
    \/ StepFollowNoSelection
    \/ StepRetweetNoSelection
    \/ StepAdvance

SpecNoSelection == InitSignal /\ [][NextNoSelection]_vars

(***************************************************************************)
(* SpecTree: a tree under a fixed classifier, driven by add and remove.    *)
(***************************************************************************)
\* the classifiers explored: the tree treats all element IDs alike, so of
\* the classifiers that differ only by renaming the elements the one whose
\* bins do not decrease with the ID is taken
Classifiers ==
    {c \in [Elems -> Bins \X Bins] :
        \A e \in Elems : \A f \in Elems :
            e < f => c[e][1] * NBins + c[e][2] <= c[f][1] * NBins + c[f][2]}

InitTree ==
    /\ tree = TreeNode_new
    /\ cls \in Classifiers
    /\ config = [initial_entities |-> 0, use_barabasi |-> FALSE,
                 use_random_increment |-> FALSE, follow_model |-> RANDOM_FOLLOW]
    /\ SimInit("idle")
    /\ call = NoCall
    /\ LeafIdle
    /\ BankIdle

\* a call and its result
Call(op, path, arg, ok, val) ==
    [op |-> op, path |-> path, arg |-> arg, ok |-> ok, val |-> val]

\* a caller adds an element
TreeAdd ==
    \E e \in Elems :
        LET r == TreeNode_add(tree, TreeDepth, << >>, e)
        IN  /\ tree' = r.node
            /\ call' = Call("add", << >>, e, r.ok, r.delta)
            /\ UNCHANGED <<cls, table, bank, simvars>>

\* a caller removes an element
TreeRemove ==
    \E e \in Elems :
        LET r == TreeNode_remove(tree, TreeDepth, << >>, e)
        IN  /\ tree' = r.node
            /\ call' = Call("remove", << >>, e, r.ok, r.delta)
            /\ UNCHANGED <<cls, table, bank, simvars>>

NextTree == TreeAdd \/ TreeRemove

SpecTree == InitTree /\ [][NextTree]_vars

(***************************************************************************)
(* SpecReclassify: the same tree while the state the classifier reads      *)
(* changes between the calls.                                              *)
(***************************************************************************)
\* the attributes of an element change: ClassifierT::classify(S, elem) now
\* returns other bins for it; the tree is not told
Reclassify ==
    \E e \in 0 .. (MaxReclassified - 1) : \E b \in Bins \X Bins :
        /\ b # cls[e]
        /\ cls' = [cls EXCEPT ![e] = b]
        /\ UNCHANGED <<tree, call, table, bank, simvars>>

NextReclassify == TreeAdd \/ TreeRemove \/ Reclassify

SpecReclassify == InitTree /\ [][NextReclassify]_vars

(***************************************************************************)
(* SpecRateChange: the same tree while the rates the classifier hands out  *)
(* change between the calls.                                               *)
(***************************************************************************)
\* the state the classifier reads changes: ClassifierT::get now returns a
\* larger rate for every leaf; the tree is not told
RateChange ==
    /\ time < MaxRateChange
    /\ time' = time + 1
    /\ UNCHANGED <<datavars, config, DATA_TIME, pc, CTRL_C_ATTEMPTS, stats, network, grower,
                   follow_ranks, tweet_ranks, entity_lists, last_entity_ID, N>>

NextRateChange == TreeAdd \/ TreeRemove \/ RateChange

SpecRateChange == InitTree /\ [][NextRateChange]_vars

\* DEBUG_CHECK(delta <= 0, "Positive rate delta on 'remove'!"), line 310:
\* the check fails on a positive delta
remove_check_failed(delta) == delta > 0

(***************************************************************************)
(* SpecSample: the tree under a fixed classifier, driven by add and        *)
(* remove and sampled between them.                                        *)
(***************************************************************************)
\* the internal nodes that have bins, as paths of 0-based bins from the
\* root: the root << >> and the root's children <<i>>
InternalPaths ==
    {p \in {<< >>} \cup {<<i>> : i \in Bins} :
        IF p = << >>
        THEN tree.cats # << >>
        ELSE p[1] < Len(tree.cats) /\ tree.cats[p[1] + 1].cats # << >>}

NodeAt(p) == IF p = << >> THEN tree ELSE tree.cats[p[1] + 1]
LevelAt(p) == TreeDepth - Len(p)

\* pick_random_uniform reaches an internal node that has bins and calls
\* random_uniform_bin
SampleUniformBin ==
    \E p \in InternalPaths : \E num \in RandInt(NodeAt(p).n_elems) :
        LET bin == random_uniform_bin(NodeAt(p), num)
        IN  /\ call' = Call("random_uniform_bin", p, num, bin # ASSERT_FAILED, bin)
            /\ UNCHANGED <<tree, cls, table, bank, simvars>>

\* pick_random_weighted reaches an internal node that has bins and calls
\* random_weighted_bin
SampleWeightedBin ==
    \E p \in InternalPaths : \E num \in WeightedDraws(NodeAt(p).total_rate) :
        LET bin == random_weighted_bin(NodeAt(p), num)
        IN  /\ call' = Call("random_weighted_bin", p, num, bin # ASSERT_FAILED, bin)
            /\ UNCHANGED <<tree, cls, table, bank, simvars>>

\* a caller samples the whole tree uniformly
PickUniform ==
    \E r \in pick_random_uniform(tree, TreeDepth) :
        /\ call' = Call("pick_random_uniform", << >>,
                        IF r.asserted THEN ASSERT_FAILED ELSE 0, r.ok, r.elem)
        /\ UNCHANGED <<tree, cls, table, bank, simvars>>

\* a caller samples the whole tree by rate
PickWeighted ==
    \E r \in pick_random_weighted(tree, TreeDepth) :
        /\ call' = Call("pick_random_weighted", << >>,
                        IF r.asserted THEN ASSERT_FAILED ELSE 0, r.ok, r.elem)
        /\ UNCHANGED <<tree, cls, table, bank, simvars>>

NextSample ==
    \/ TreeAdd
    \/ TreeRemove
    \/ SampleUniformBin
    \/ SampleWeightedBin
    \/ PickUniform
    \/ PickWeighted

SpecSample == InitTree /\ [][NextSample]_vars

(***************************************************************************)
(* SpecLeaf: the hash set of one LeafNode, a google::sparse_hash_set with  *)
(* deleted key -1, as LeafNode reads it through elems.rep.table.           *)
(***************************************************************************)
\* elems.set_deleted_key(ElemT(-1)): erase() overwrites the erased key with
\* the deleted key and leaves the slot occupied
DELETED_KEY == -1

\* the content of a slot for which table.test(slot) is false
EMPTY_SLOT == -2

\* elems.rep.table.size(): the number of hash slots; one slot more than the
\* set can hold elements, so that a probe always ends
n_hash_slots == MaxElems + 1

\* the occupied slots (elements and deleted keys) the table holds before it
\* is rebuilt
enlarge_threshold == MaxElems

Slots == 1 .. n_hash_slots

\* the table of a new LeafNode
Table_new == [i \in Slots |-> EMPTY_SLOT]

\* elems.rep.table.test(idx), idx 0-based
Table_test(t, idx) == t[idx + 1] # EMPTY_SLOT

\* the elements of the set: the occupied slots that hold no deleted key
Table_elems(t) == {t[i] : i \in Slots} \ {EMPTY_SLOT, DELETED_KEY}

\* the k-th slot (k = 0, 1, ...) probed for a key
Probe(key, k) == ((key + k) % n_hash_slots) + 1

\* find_position for a key that is not in the table: the first slot of the
\* probe sequence holding a deleted key if one comes before the first empty
\* slot, else that empty slot
RECURSIVE insert_position(_, _, _)
insert_position(t, key, k) ==
    IF t[Probe(key, k)] \in {EMPTY_SLOT, DELETED_KEY}
    THEN Probe(key, k)
    ELSE insert_position(t, key, k + 1)

\* the table rebuilt without its deleted keys
RECURSIVE Table_rebuild(_, _)
Table_rebuild(t, keys) ==
    IF keys = {}
    THEN t
    ELSE LET key == CHOOSE x \in keys : \A y \in keys : x <= y
         IN  Table_rebuild([t EXCEPT ![insert_position(t, key, 0)] = key],
                           keys \ {key})

\* elems.insert(elem)
Table_insert(t, elem) ==
    IF elem \in Table_elems(t)
    THEN t
    ELSE LET occupied == Cardinality({i \in Slots : t[i] # EMPTY_SLOT})
             t1 == IF occupied + 1 > enlarge_threshold
                   THEN Table_rebuild(Table_new, Table_elems(t))
                   ELSE t
         IN  [t1 EXCEPT ![insert_position(t1, elem, 0)] = elem]

\* elems.erase(elem): the slot of elem gets the deleted key
Table_erase(t, elem) ==
    [i \in Slots |-> IF t[i] = elem THEN DELETED_KEY ELSE t[i]]

\* LeafNode::pick_random_uniform on the table: the results over all draws
\* idx = rng.rand_int(n_hash_slots)
Table_pick_random_uniform(t) ==
    IF Table_elems(t) = {}
    THEN {PickFailed}
    ELSE {Picked(t[idx + 1]) : idx \in {i \in RandInt(n_hash_slots) : Table_test(t, i)}}

InitLeaf ==
    /\ table = Table_new
    /\ tree = TreeNode_new
    /\ cls = [e \in Elems |-> <<0, 0>>]
    /\ call = NoCall
    /\ BankIdle
    /\ config = [initial_entities |-> 0, use_barabasi |-> FALSE,
                 use_random_increment |-> FALSE, follow_model |-> RANDOM_FOLLOW]
    /\ SimInit("idle")

\* LeafNode::add: insert(elem)
LeafInsert ==
    \E e \in Elems :
        /\ table' = Table_insert(table, e)
        /\ call' = Call("insert", << >>, e, e \notin Table_elems(table), 0)
        /\ UNCHANGED <<tree, cls, bank, simvars>>

\* LeafNode::remove: elems.erase(elem)
LeafErase ==
    \E e \in Elems :
        /\ table' = Table_erase(table, e)
        /\ call' = Call("erase", << >>, e, e \in Table_elems(table), 0)
        /\ UNCHANGED <<tree, cls, bank, simvars>>

\* LeafNode::pick_random_uniform
LeafPick ==
    \E r \in Table_pick_random_uniform(table) :
        /\ call' = Call("pick_random_uniform", << >>, 0, r.ok, r.elem)
        /\ UNCHANGED <<tree, cls, table, bank, simvars>>

NextLeaf == LeafInsert \/ LeafErase \/ LeafPick

SpecLeaf == InitLeaf /\ [][NextLeaf]_vars

(***************************************************************************)
(* SpecTweets: the tweets of the TimeDepRateTree while time advances and   *)
(* ElementChecker::check is called on them (tweets.cpp).                   *)
(***************************************************************************)
\* tweet_observation.initial_resolution and .resolution_growth_factor: the
\* width of the first age bin and the factor from one width to the next
initial_resolution == 1
resolution_growth_factor == 2

\* the width of age bin k
RECURSIVE bin_width(_)
bin_width(k) ==
    IF k = 0 THEN initial_resolution ELSE resolution_growth_factor * bin_width(k - 1)

\* determiner.get_cat_threshold(bin): the age at which bin ends
RECURSIVE get_cat_threshold(_)
get_cat_threshold(bin) ==
    IF bin = 0 THEN bin_width(0) ELSE get_cat_threshold(bin - 1) + bin_width(bin)

\* tweet_observation.time_span: the age at which the last age bin ends
time_span == get_cat_threshold(NTimeBins - 1)

\* state.config.tweet_obs.values[bin]: the observation probability of an age
\* bin as a numerator over ObsDenom; it falls from bin to bin and the values
\* of all bins sum to 1
tweet_obs_values(bin) == NTimeBins - bin
ObsDenom == (NTimeBins * (NTimeBins + 1)) \div 2

\* get_rate, lines 46-55: the sum of get_total_rate() over the categories
\* of the tweeter's follower set, the same for every tweet here
followers_total_rate == 1

\* TweetRateDeterminer::get_rate(tweet, bin): obs_prob is read from
\* tweet_obs.values[bin] (line 29) and used nowhere; the rate returned is
\* the follower set's total
get_rate(creation_time, bin) == followers_total_rate

\* a tweet entering the bank at creation_time: age bin 0, to be re-binned
\* when bin 0 ends, with the rate get_rate gives for bin 0
Tweet_new(creation_time) ==
    [creation_time |-> creation_time, retweet_time_bin |-> 0,
     retweet_next_rebin_time |-> creation_time + get_cat_threshold(0),
     in_tree |-> TRUE, rate |-> get_rate(creation_time, 0)]

\* faulty variant: a tweet that is due is rejected and left as it is
ElementChecker_check_nomove(t, now) ==
    IF now > t.retweet_next_rebin_time
    THEN [t |-> t, ok |-> FALSE]
    ELSE [t |-> t, ok |-> TRUE]

\* faulty variant: a tweet whose bin index has passed the last bin stays in
\* the tree
ElementChecker_check_noremove(t, now) ==
    IF now > t.retweet_next_rebin_time
    THEN LET bin == t.retweet_time_bin + 1
         IN  IF bin >= NTimeBins
             THEN [t  |-> [t EXCEPT !.retweet_time_bin = bin], ok |-> FALSE]
             ELSE [t  |-> [t EXCEPT !.retweet_time_bin = bin,
                                    !.retweet_next_rebin_time =
                                        t.creation_time + get_cat_threshold(bin),
                                    !.rate = get_rate(t.creation_time, bin)],
                   ok |-> FALSE]
    ELSE [t |-> t, ok |-> TRUE]

\* faulty variant: the next re-bin time is taken from the bin the tweet leaves
ElementChecker_check_stale(t, now) ==
    IF now > t.retweet_next_rebin_time
    THEN LET bin == t.retweet_time_bin + 1
         IN  IF bin >= NTimeBins
             THEN [t  |-> [t EXCEPT !.retweet_time_bin = bin, !.in_tree = FALSE],
                   ok |-> FALSE]
             ELSE [t  |-> [t EXCEPT !.retweet_time_bin = bin,
                                    !.retweet_next_rebin_time =
                                        t.creation_time + get_cat_threshold(bin - 1),
                                    !.rate = get_rate(t.creation_time, bin)],
                   ok |-> FALSE]
    ELSE [t |-> t, ok |-> TRUE]

\* TimeDepRateTree::ElementChecker::check(id) on tweet t at time now: the
\* tweet afterwards and the value returned; in_tree becomes false on
\* tree.tree.remove(id), rate is what tree.tree.replace_rate(id, rates) stores
ElementChecker_check(t, now) ==
    IF now > t.retweet_next_rebin_time
    THEN LET bin == t.retweet_time_bin + 1
         IN  IF bin >= NTimeBins
             THEN [t  |-> [t EXCEPT !.retweet_time_bin = bin, !.in_tree = FALSE],
                   ok |-> FALSE]
             ELSE [t  |-> [t EXCEPT !.retweet_time_bin = bin,
                                    !.retweet_next_rebin_time =
                                        t.creation_time + get_cat_threshold(bin),
                                    !.rate = get_rate(t.creation_time, bin)],
                   ok |-> FALSE]
    ELSE [t |-> t, ok |-> TRUE]

InitTweets ==
    /\ bank = << >>
    /\ tree = TreeNode_new
    /\ cls = [e \in Elems |-> <<0, 0>>]
    /\ call = NoCall
    /\ LeafIdle
    /\ config = [initial_entities |-> 0, use_barabasi |-> FALSE,
                 use_random_increment |-> FALSE, follow_model |-> RANDOM_FOLLOW]
    /\ SimInit("idle")

BankUnchanged ==
    UNCHANGED <<tree, cls, table, config, DATA_TIME, pc, CTRL_C_ATTEMPTS, stats, network,
                grower, follow_ranks, tweet_ranks, entity_lists, last_entity_ID, N>>

\* a tweet is made at the current time and enters the bank
TweetCreate ==
    /\ Len(bank) < MaxTweets
    /\ bank' = Append(bank, Tweet_new(time))
    /\ call' = Call("tweet", << >>, Len(bank), TRUE, 0)
    /\ UNCHANGED time
    /\ BankUnchanged

\* a KMC step advances the simulated time
BankTimeStep ==
    /\ time < time_span + MaxOverSpan
    /\ time' = time + 1
    /\ call' = Call("step_time", << >>, 0, TRUE, 0)
    /\ UNCHANGED bank
    /\ BankUnchanged

\* weighted sampling reaches tweet id and asks the checker
BankCheck ==
    \E id \in 1 .. Len(bank) :
        /\ bank[id].in_tree
        /\ LET r == ElementChecker_check(bank[id], time)
           IN  /\ bank' = [bank EXCEPT ![id] = r.t]
               /\ call' = Call("check", << >>, id, r.ok, 0)
        /\ UNCHANGED time
        /\ BankUnchanged

NextTweets == TweetCreate \/ BankTimeStep \/ BankCheck

SpecTweets == InitTweets /\ [][NextTweets]_vars

(***************************************************************************)
(* SpecPick: weighted sampling of the tweet bank with the aging checker:   *)
(* a candidate the checker rejects makes the sampling try again.           *)
(***************************************************************************)
PickUnchanged ==
    UNCHANGED <<tree, cls, table, config, DATA_TIME, CTRL_C_ATTEMPTS, stats, network,
                grower, follow_ranks, tweet_ranks, entity_lists, last_entity_ID, N>>

\* between sampling calls a tweet is made
PickTweetCreate == pc = "idle" /\ TweetCreate

\* between sampling calls the simulated time advances
PickTimeStep == pc = "idle" /\ BankTimeStep

\* a retweet event starts a sampling call; while it runs call.val is the
\* candidate it rejected last
PickStart ==
    /\ pc = "idle"
    /\ pc' = "sampling"
    /\ call' = Call("pick_random_weighted", << >>, 0, FALSE, 0)
    /\ UNCHANGED <<bank, time>>
    /\ PickUnchanged

\* the sampling draws a tweet of the tree and asks the checker: an accepted
\* tweet is returned, a rejected one makes the sampling try again
PickTry ==
    /\ pc = "sampling"
    /\ \E id \in 1 .. Len(bank) :
          /\ bank[id].in_tree
          /\ LET r == ElementChecker_check(bank[id], time)
             IN  /\ bank' = [bank EXCEPT ![id] = r.t]
                 /\ pc' = IF r.ok THEN "idle" ELSE "sampling"
                 /\ call' = IF r.ok
                            THEN Call("pick_random_weighted", << >>, call.arg, TRUE, id)
                            ELSE [call EXCEPT !.val = id]
    /\ UNCHANGED time
    /\ PickUnchanged

\* the sampling finds the tree empty and reports no selection
PickNone ==
    /\ pc = "sampling"
    /\ \A id \in 1 .. Len(bank) : ~bank[id].in_tree
    /\ pc' = "idle"
    /\ call' = Call("pick_random_weighted", << >>, call.arg, FALSE, call.val)
    /\ UNCHANGED <<bank, time>>
    /\ PickUnchanged

NextPick ==
    \/ PickTweetCreate
    \/ PickTimeStep
    \/ PickStart
    \/ PickTry
    \/ PickNone

\* a sampling call that has started goes on running
SpecPick == InitTweets /\ [][NextPick]_vars /\ WF_vars(PickTry \/ PickNone)

(***************************************************************************)
(* Sums over the tree, computed from the leaves.                           *)
(***************************************************************************)
(* SpecShift: the tree of an age-like classifier: besides add and remove,  *)
(* the rates change, the totals are recomputed and the bins are shifted.   *)
(***************************************************************************)
\* faulty variant: the totals of the leaves are recomputed, those of the
\* internal nodes are left as they were
RECURSIVE recalc_rates_leaves_only(_, _, _)
recalc_rates_leaves_only(node, level, path) ==
    IF level = 0
    THEN [node EXCEPT !.total_rate = LeafRate(path) * LeafNode_size(node)]
    ELSE [node EXCEPT !.cats =
             [i \in 1 .. Len(node.cats) |->
                 recalc_rates_leaves_only(node.cats[i], level - 1, Append(path, i - 1))]]

\* LeafNode::recalc_rates(N, rate): total_rate = rate * elems.size();
\* TreeNode::recalc_rates(S, C): total_rate = the sum of what recalc_rates
\* returns for each bin. The value returned is the total_rate of the result
RECURSIVE recalc_rates(_, _, _)
recalc_rates(node, level, path) ==
    IF level = 0
    THEN [node EXCEPT !.total_rate = LeafRate(path) * LeafNode_size(node)]
    ELSE LET cats1 == [i \in 1 .. Len(node.cats) |->
                          recalc_rates(node.cats[i], level - 1, Append(path, i - 1))]
         IN  [node EXCEPT !.cats = cats1,
                          !.total_rate =
                              SeqSum([i \in 1 .. Len(cats1) |-> cats1[i].total_rate])]

\* faulty variant: the bins trade their children but keep their own
\* n_elems and total_rate
TreeNode_swap_cats_only(cats, i) ==
    [cats EXCEPT ![i + 1] = [@ EXCEPT !.cats = cats[i].cats],
                 ![i]     = [@ EXCEPT !.cats = cats[i + 1].cats]]

\* cats[i].swap(cats[i-1]): n_elems, total_rate and cats all change places
TreeNode_swap(cats, i) ==
    [cats EXCEPT ![i + 1] = cats[i], ![i] = cats[i + 1]]

\* for (int i = cats.size() - 1; i >= 1; i--) cats[i].swap(cats[i-1])
RECURSIVE swap_loop(_, _)
swap_loop(cats, i) ==
    IF i >= 1 THEN swap_loop(TreeNode_swap(cats, i), i - 1) ELSE cats

\* the loop of LeafNode::transfer: every element of the leaf is added to o,
\* a node at level olevel reached by opath, whose classifier is C
RECURSIVE transfer_elems(_, _, _, _)
transfer_elems(elems, o, olevel, opath) ==
    IF elems = {}
    THEN o
    ELSE LET e == CHOOSE x \in elems : TRUE
         IN  transfer_elems(elems \ {e}, TreeNode_add(o, olevel, opath, e).node,
                            olevel, opath)

\* faulty variant: the source is emptied and nothing reaches o
transfer_dropping(node, level, o, olevel, opath) ==
    [src |-> IF level = 0 THEN [node EXCEPT !.elems = {}]
                          ELSE [node EXCEPT !.cats = << >>],
     o   |-> o]

\* LeafNode::transfer(N, C, o): add every element to o, then elems.clear();
\* TreeNode::transfer(S, C, o): transfer every bin, then cats.clear().
\* Neither resets the total_rate or the n_elems of the source
RECURSIVE transfer(_, _, _, _, _)
transfer(node, level, o, olevel, opath) ==
    IF level = 0
    THEN [src |-> [node EXCEPT !.elems = {}],
          o   |-> transfer_elems(node.elems, o, olevel, opath)]
    ELSE LET RECURSIVE bins(_, _)
             bins(i, acc) ==
                 IF i > Len(node.cats)
                 THEN acc
                 ELSE bins(i + 1, transfer(node.cats[i], level - 1, acc, olevel, opath).o)
         IN  [src |-> [node EXCEPT !.cats = << >>],
              o   |-> bins(1, o)]

\* for (int i = max; i < cats.size(); i++)
\*     cats[i].transfer(S, C.get(S, max - 1), cats[max - 1])
RECURSIVE collapse_loop(_, _, _, _, _)
collapse_loop(cats, i, max, level, path) ==
    IF i < Len(cats)
    THEN LET t == transfer(cats[i + 1], level - 1, cats[max], level - 1,
                           Append(path, max - 1))
         IN  collapse_loop([cats EXCEPT ![i + 1] = t.src, ![max] = t.o],
                           i + 1, max, level, path)
    ELSE cats

\* cats.resize(n)
resize(cats, n, level) ==
    IF n <= Len(cats)
    THEN SubSeq(cats, 1, n)
    ELSE cats \o [i \in 1 .. (n - Len(cats)) |-> SubCat_new(level)]

\* TreeNode::shift_and_recalc_rates(S, C) on a node whose bins are
\* TreeNodes (a LeafNode has no swap); C.size() is the number of bins
shift_and_recalc_rates(node, level, path) ==
    LET cats1 == resize(node.cats, Len(node.cats) + 1, level)
        cats2 == swap_loop(cats1, Len(cats1) - 1)
        max   == NBins
        cats3 == collapse_loop(cats2, max, max, level, path)
        cats4 == resize(cats3, max, level)
    IN  recalc_rates([node EXCEPT !.cats = cats4], level, path)

\* the reference point of the classifier has advanced: every element is now
\* classified one bin further at the outer level, the last bin taking what
\* would pass it
aged(c) ==
    [e \in Elems |->
        <<IF c[e][1] + 1 < NBins THEN c[e][1] + 1 ELSE NBins - 1, c[e][2]>>]

\* the number of members in the bins that a shift pushes past the maximum
Pushed(node) ==
    SeqSum([i \in 1 .. Len(node.cats) |->
               IF i >= NBins THEN node.cats[i].n_elems ELSE 0])

\* the reference point of the classifier, the time, advances and the bins
\* of the root are shifted; the classifier the call is given is the one of
\* the new time. The call record keeps how many members were in the bins
\* pushed past the maximum
Shift ==
    /\ tree' = shift_and_recalc_rates(tree, TreeDepth, << >>)
    /\ cls' = aged(cls)
    /\ call' = Call("shift_and_recalc_rates", << >>, Pushed(tree), TRUE, 0)
    /\ UNCHANGED <<table, bank, simvars>>

\* the caller has the totals recomputed and receives the new total
Recalc ==
    LET r == recalc_rates(tree, TreeDepth, << >>)
    IN  /\ tree' = r
        /\ call' = Call("recalc_rates", << >>, 0, TRUE, r.total_rate)
        /\ UNCHANGED <<cls, table, bank, simvars>>

NextShift == TreeAdd \/ TreeRemove \/ Shift

SpecShift == InitTree /\ [][NextShift]_vars

\* the shifted tree while the state the classifier reads changes for an
\* element between the calls; the adds are followed as long as the root
\* counts no more than MaxElems members
ShiftAdd == tree.n_elems <= MaxElems /\ TreeAdd

NextShiftReclassify == ShiftAdd \/ TreeRemove \/ Reclassify \/ Shift

SpecShiftReclassify == InitTree /\ [][NextShiftReclassify]_vars

\* the tree while the rates change and the totals are recomputed.
\* recalc_rates never calls classify: the classifier only decides where add
\* has put the members, and of the classifiers those are taken that put an
\* element in the same bin at both levels
InitRecalc ==
    /\ InitTree
    /\ \A e \in Elems : cls[e][1] = cls[e][2]

NextRecalc == TreeAdd \/ TreeRemove \/ RateChange \/ Recalc

SpecRecalc == InitRecalc /\ [][NextRecalc]_vars

(***************************************************************************)
\* every node below (and including) node agrees with what lies under it:
\* a leaf's total is rate x size, an internal node's total the sum of its children's
RECURSIVE RatesConsistent(_, _, _)
RatesConsistent(node, level, path) ==
    IF level = 0
    THEN node.total_rate = LeafRate(path) * LeafNode_size(node)
    ELSE /\ node.total_rate =
              SeqSum([i \in 1 .. Len(node.cats) |-> node.cats[i].total_rate])
         /\ \A i \in 1 .. Len(node.cats) :
              RatesConsistent(node.cats[i], level - 1, Append(path, i - 1))

\* the sum over all leaves under node of rate x size
RECURSIVE LeafRateSum(_, _, _)
LeafRateSum(node, level, path) ==
    IF level = 0
    THEN LeafRate(path) * LeafNode_size(node)
    ELSE SeqSum([i \in 1 .. Len(node.cats) |->
                    LeafRateSum(node.cats[i], level - 1, Append(path, i - 1))])

\* the members of all leaves under node
RECURSIVE Members(_, _)
Members(node, level) ==
    IF level = 0
    THEN node.elems
    ELSE UNION {Members(node.cats[i], level - 1) : i \in 1 .. Len(node.cats)}

\* C1: under a fixed classifier and fixed non-negative leaf rates, after any
\* sequence of add and remove every leaf's total_rate is rate x size, every
\* internal node's total_rate is the sum of its children's, and the root's
\* total_rate is the sum over all leaves of rate x size.
C1_RateSums ==
    /\ RatesConsistent(tree, TreeDepth, << >>)
    /\ tree.total_rate = LeafRateSum(tree, TreeDepth, << >>)

\* C1 witness: members in two different outer bins, with a positive total
C1_Witness ==
    /\ Len(tree.cats) = NBins
    /\ \A i \in 1 .. NBins : tree.cats[i].n_elems > 0
    /\ tree.n_elems < MaxElems
    /\ tree.total_rate > 0

(***************************************************************************)
(* The network and the KMC loop.                                           *)
(***************************************************************************)
follow_set(a) == Range(network.ent[a].follow_set)
follower_set(a) == Range(network.ent[a].follower_set)

\* C2: for all agents a and b, b is in follow_set(a) if and only if a is in
\* follower_set(b), after any sequence of steps, follows that hit exhausted
\* follow-set capacity included.
C2_FollowSymmetry ==
    \A a \in EntityIds : \A b \in EntityIds :
        b \in follow_set(a) <=> a \in follower_set(b)

\* C3: whenever the total event rate is positive, a step never moves
\* simulated time backwards, under the random and under the fixed increment.
C3_TimeMonotone == [][stats.event_rate > 0 => time' >= time]_vars

\* C3 witness: two steps have advanced the clock under the random increment
C3_Witness ==
    /\ config.use_random_increment
    /\ stats.n_steps >= 2
    /\ time > 0
    /\ stats.event_rate > 0

\* C4: while the interrupt counter is between 1 and CTRL_C_ATTEMPTS_TO_ABORT,
\* a step that is executing runs to its end (the action is followed by the
\* time advance, and the step ends with n_steps incremented and the rates
\* updated), never leaving the loop from its middle, and the loop starts no
\* further step once the counter is non-zero.
C4_GracefulHalt ==
    [][CTRL_C_ATTEMPTS' \in 1 .. CTRL_C_ATTEMPTS_TO_ABORT =>
          /\ pc = "act" => pc' \in {"act", "advance"}
          /\ pc = "advance" =>
                \/ pc' = "advance"
                \/ /\ pc' = "loop"
                   /\ stats'.n_steps = stats.n_steps + 1
                   /\ stats' = analyzer_rate_update(stats', network'.n_entities)
          /\ (pc = "loop" /\ CTRL_C_ATTEMPTS > 0) => pc' \in {"loop", "done"}]_vars

\* C4 witness: an interrupt arrived while the step was at its action, and
\* the step has gone on to its time advance
C4_Witness ==
    /\ pc = "advance"
    /\ CTRL_C_ATTEMPTS \in 1 .. CTRL_C_ATTEMPTS_TO_ABORT
    /\ stats.n_steps >= 1

\* C5: the interrupt counter never decreases, it grows by one per interrupt,
\* and the program is aborted exactly when the counter has passed
\* CTRL_C_ATTEMPTS_TO_ABORT: on the fifth interrupt, on none of the first four.
C5_AbortOnFifth ==
    [][/\ CTRL_C_ATTEMPTS' >= CTRL_C_ATTEMPTS
       /\ CTRL_C_ATTEMPTS' <= CTRL_C_ATTEMPTS + 1
       /\ pc' = "aborted" <=> CTRL_C_ATTEMPTS' > CTRL_C_ATTEMPTS_TO_ABORT]_vars

\* C5 witness: the fifth interrupt has aborted the program
C5_Witness ==
    /\ pc = "aborted"
    /\ CTRL_C_ATTEMPTS = CTRL_C_ATTEMPTS_TO_ABORT + 1

\* C6: no step is started once time >= max_time, and when the loop has ended
\* for no other reason (the network is not full, no interrupt) the end time
\* is >= max_time.
C6_NoStepAfterMaxTime ==
    [][/\ (pc = "loop" /\ time >= max_time) => pc' # "act"
       /\ (pc' = "done" /\ network'.n_entities < max_entities
             /\ CTRL_C_ATTEMPTS' = 0) => time' >= max_time]_vars

\* C6 witness: the loop has ended on time alone
C6_Witness ==
    /\ pc = "done"
    /\ time >= max_time
    /\ network.n_entities < max_entities
    /\ stats.n_steps >= 1

\* C7: reaching max_agents only stops agents being added: the loop ends on
\* another bound (max_time, an interrupt, max_analysis_steps), not on the
\* number of agents.
C7_LoopOutlivesMaxAgents ==
    pc = "done" =>
        \/ time >= max_time
        \/ CTRL_C_ATTEMPTS > 0
        \/ stats.n_steps >= max_analysis_steps

\* C8: stats.n_steps never exceeds the configured max_analysis_steps.
C8_StepsBounded == stats.n_steps <= max_analysis_steps

\* C9: the number of agents never exceeds the preallocated maximum, the
\* agents created at start-up from initial_entities included.
C9_WithinPreallocation == network.n_entities <= max_entities

\* C10: no agent's ID is in its own follow-set or follower-set, under every
\* follow model and with the follow made at creation under use_barabasi.
C10_NoSelfFollow ==
    \A a \in EntityIds : a \notin follow_set(a) /\ a \notin follower_set(a)

\* C10 witness: under use_barabasi and the entity follow model (where the
\* first agent can only draw itself) a follow has been made
C10_Witness ==
    /\ config.use_barabasi
    /\ config.follow_model = ENTITY_FOLLOW
    /\ network.n_entities >= 2
    /\ stats.n_follows >= 1

\* a sequence without repetition
NoRepeat(s) == \A i \in 1 .. Len(s) : \A j \in 1 .. Len(s) : s[i] = s[j] => i = j

\* C11: a follow of a target the actor already follows is rejected: no
\* agent's follow-set ever holds the same agent ID twice, and a follow whose
\* target is already in the actor's follow-set does not increment n_follows
\* (n_follows only grows in a step that puts a new ID into some follow-set).
C11_DuplicateFollowRejected ==
    [][/\ \A a \in EntityIds : NoRepeat(network'.ent[a].follow_set)
       /\ stats'.n_follows > stats.n_follows =>
             \E a \in EntityIds : \E b \in EntityIds :
                 /\ b \notin Range(network.ent[a].follow_set)
                 /\ b \in Range(network'.ent[a].follow_set)]_vars

\* follow(from, to) was accepted in this step: to was appended to from's follow-set
Followed(from, to) ==
    /\ Len(network'.ent[from].follow_set) = Len(network.ent[from].follow_set) + 1
    /\ network'.ent[from].follow_set[Len(network'.ent[from].follow_set)] = to

\* C12: when follow-back is enabled and the followed agent's type has
\* followback probability 1, an accepted follow(from, to) is followed within
\* the same step by follow(to, from): after the step the edge to->from exists
\* and n_follows has increased by 2 (by 1 only if to already followed from).
C12_FollowbackInSameStep ==
    [][\A from \in EntityIds : \A to \in EntityIds :
          (/\ config.use_followback
           /\ Followed(from, to)
           /\ network.ent[to].entity \in Types
           /\ config.followback_probability[network.ent[to].entity] = ProbDenom)
          => /\ from \in Range(network'.ent[to].follow_set)
             /\ stats'.n_follows = stats.n_follows +
                    (IF from \in Range(network.ent[to].follow_set) THEN 1 ELSE 2)]_vars

\* the leaves of the tree, as <<outer bin, inner bin>> (1-based), that hold elem
LeavesOf(elem) ==
    {p \in (1 .. Len(tree.cats)) \X (1 .. NBins) :
        /\ p[2] <= Len(tree.cats[p[1]].cats)
        /\ elem \in tree.cats[p[1]].cats[p[2]].elems}

\* C13: after any sequence of add and remove calls, the classification of
\* an element changing between calls included, no element is a member of
\* more than one leaf.
C13_OneLeafPerMember == \A e \in Elems : Cardinality(LeavesOf(e)) <= 1

\* the agents created so far
Created == {a \in EntityIds : a < network.n_entities}

\* a step has completed: the loop is between steps, or has ended
StepCompleted == pc \in {"loop", "done"} /\ stats.n_steps >= 1

CallCats == NodeAt(call.path).cats
CallChildLevel == LevelAt(call.path) - 1

\* the sum of the rates, and of the sizes, of the children before bin i (0-based)
RateBefore(i) == SeqSum([k \in 1 .. i |-> CallCats[k].total_rate])
SizeBefore(i) == SeqSum([k \in 1 .. i |-> Node_size(CallCats[k], CallChildLevel)])

\* C15: weighted sampling at an internal node with a draw u in
\* [0, total_rate) selects the child i whose slice [sum of the rates before
\* i, that sum plus the rate of i) contains u; a child whose total_rate is 0
\* is never selected while some child has a positive rate; and when u stays
\* above the accumulated sum of all children the last child is selected.
C15_WeightedSlice ==
    (call.op = "random_weighted_bin" /\ NodeAt(call.path).total_rate > 0) =>
        LET i == call.val
            u == call.arg
        IN  /\ i \in 0 .. (Len(CallCats) - 1)
            /\ u >= DrawDenom * RateBefore(Len(CallCats)) => i = Len(CallCats) - 1
            /\ u < DrawDenom * RateBefore(Len(CallCats)) =>
                  /\ DrawDenom * RateBefore(i) <= u
                  /\ u < DrawDenom * (RateBefore(i) + CallCats[i + 1].total_rate)
                  /\ CallCats[i + 1].total_rate > 0

\* C16: uniform sampling at an internal node with an integer draw n in
\* [0, size) selects the child whose range of cumulative member counts
\* contains n (a child with k of the N members is chosen for exactly k of
\* the N draws), a child without members is never selected, and the 'No bin
\* to choose from' assertion is not reached when the node has members.
C16_UniformByCount ==
    (call.op = "random_uniform_bin" /\ NodeAt(call.path).n_elems > 0) =>
        LET i == call.val
            n == call.arg
        IN  /\ i # ASSERT_FAILED
            /\ i \in 0 .. (Len(CallCats) - 1)
            /\ SizeBefore(i) <= n
            /\ n < SizeBefore(i) + Node_size(CallCats[i + 1], CallChildLevel)

\* C17: after any sequence of insert and erase on a leaf's set, uniform
\* sampling returns only elements that are members at that moment (never an
\* erased element, never the deleted-key sentinel -1), every member is a
\* possible result, and sampling fails if and only if the set is empty.
C17_LeafPickIsMember ==
    /\ \A e \in Table_elems(table) : Picked(e) \in Table_pick_random_uniform(table)
    /\ call.op = "pick_random_uniform" =>
          /\ call.ok <=> Table_elems(table) # {}
          /\ call.ok => call.val \in Table_elems(table)

\* the trees without members: no bins, or bins that hold nothing
EmptyInnerNodes ==
    {[total_rate |-> 0, n_elems |-> 0, cats |-> [i \in 1 .. n |-> LeafNode_new]] :
        n \in 0 .. NBins}
EmptyTrees ==
    {[total_rate |-> 0, n_elems |-> 0, cats |-> c] :
        c \in UNION {[1 .. n -> EmptyInnerNodes] : n \in 0 .. NBins}}

\* C18: sampling a tree without members (no bins, or only empty bins)
\* returns failure without reaching an assertion, for pick_random_uniform
\* and for pick_random_weighted; and a KMC step whose entity selection
\* yields no selection is a null event: it changes no agent, no edge and no
\* counter other than time and n_steps.
C18_NoSelectionIsNull ==
    [][/\ \A t \in EmptyTrees :
            /\ pick_random_uniform(t, TreeDepth) = {PickFailed}
            /\ pick_random_weighted(t, TreeDepth) = {PickFailed}
       /\ (pc = "act" /\ call' = NoSelectionCall) =>
            /\ UNCHANGED <<network, grower, follow_ranks, tweet_ranks, entity_lists>>
            /\ stats' = stats]_vars

\* the target leaf of elem, the leaf the classifier sends it to, holds it
InTargetLeaf(t, elem) ==
    /\ cls[elem][1] < Len(t.cats)
    /\ cls[elem][2] < Len(t.cats[cls[elem][1] + 1].cats)
    /\ elem \in t.cats[cls[elem][1] + 1].cats[cls[elem][2] + 1].elems

\* every node's total_rate and member count and every leaf's members, a
\* bin the tree has not created yet counting as an empty one
TreeView(t) ==
    [root  |-> <<t.total_rate, t.n_elems>>,
     inner |-> [i \in Bins |->
                  IF i < Len(t.cats)
                  THEN <<t.cats[i + 1].total_rate, t.cats[i + 1].n_elems>>
                  ELSE <<0, 0>>],
     leaf  |-> [p \in Bins \X Bins |->
                  IF p[1] < Len(t.cats) /\ p[2] < Len(t.cats[p[1] + 1].cats)
                  THEN <<t.cats[p[1] + 1].cats[p[2] + 1].total_rate,
                         t.cats[p[1] + 1].cats[p[2] + 1].elems>>
                  ELSE <<0, {}>>]]

bin_edge(k) == IF k = 0 THEN 0 ELSE get_cat_threshold(k - 1)

\* the tweets that have not been evicted
LiveTweets == {id \in 1 .. Len(bank) : bank[id].in_tree}

\* C20 (as claimed): for every tweet that has not been evicted and every
\* simulated time reached, the tweet's age-bin index is the k with
\* bin_edge[k] <= time - creation_time < bin_edge[k+1].
C20_AgeBinExact ==
    \A id \in LiveTweets :
        /\ bin_edge(bank[id].retweet_time_bin) <= time - bank[id].creation_time
        /\ time - bank[id].creation_time < bin_edge(bank[id].retweet_time_bin + 1)

\* C20 (amended): for every tweet that has not been evicted and every
\* simulated time reached, the age-bin index k never runs ahead of the age,
\* bin_edge[k] <= time - creation_time, and the tweet is re-binned at
\* creation_time + bin_edge[k+1]; when the checker accepts the tweet its age
\* is within the bin, bin_edge[k] <= time - creation_time <= bin_edge[k+1].
\* Between checks the index may lag behind the age.
C20_AgeBinLazy ==
    /\ \A id \in LiveTweets :
          /\ bin_edge(bank[id].retweet_time_bin) <= time - bank[id].creation_time
          /\ bank[id].retweet_next_rebin_time =
                bank[id].creation_time + bin_edge(bank[id].retweet_time_bin + 1)
    /\ (call.op = "check" /\ call.ok) =>
          time - bank[call.arg].creation_time
              <= bin_edge(bank[call.arg].retweet_time_bin + 1)

\* C20 witness: the checker has just accepted a tweet that it had moved to
\* a later bin, while another tweet's index lags behind its age
C20_Witness ==
    /\ call.op = "check"
    /\ call.ok
    /\ bank[call.arg].retweet_time_bin >= 1
    /\ \E id \in LiveTweets :
          time - bank[id].creation_time >= bin_edge(bank[id].retweet_time_bin + 1)

\* C21: the aging checker never returns true for a tweet whose age exceeds
\* the observation time span; a tweet is out of the TweetBank's tree exactly
\* when its age-bin index has passed the last configured bin; and a tweet
\* that was removed stays removed and is not checked, hence not accepted,
\* again.
C21_NoReactionAfterSpan ==
    [][/\ (call'.op = "check" /\ call'.ok) =>
             /\ bank'[call'.arg].in_tree
             /\ time' - bank'[call'.arg].creation_time <= time_span
       /\ \A id \in 1 .. Len(bank') :
             bank'[id].in_tree <=> bank'[id].retweet_time_bin < NTimeBins
       /\ \A id \in 1 .. Len(bank) :
             ~bank[id].in_tree =>
                 /\ ~bank'[id].in_tree
                 /\ ~(call'.op = "check" /\ call'.arg = id /\ call' # call)]_vars

\* C21 witness: the checker has just rejected and removed a tweet older
\* than the time span, while a younger tweet is still in the tree
C21_Witness ==
    /\ call.op = "check"
    /\ ~call.ok
    /\ ~bank[call.arg].in_tree
    /\ time - bank[call.arg].creation_time > time_span
    /\ LiveTweets # {}

\* C29: the aging checker returns true exactly when the current time does
\* not exceed the tweet's retweet_next_rebin_time, and then changes nothing;
\* otherwise it returns false, increments the tweet's age bin by exactly one
\* and either removes the tweet (new index >= number of bins) or sets
\* next_rebin_time to creation_time + threshold(new bin) and replaces the
\* tweet's rate with that of the new bin (the bin's observation probability
\* times the follower rate). No tweet's age bin ever decreases, and a tweet
\* in the tree has its bin in 0..n_bins-1.
C29_CheckerStep ==
    [][/\ call'.op = "check" =>
             LET t  == bank[call'.arg]
                 t2 == bank'[call'.arg]
             IN  /\ call'.ok <=> time <= t.retweet_next_rebin_time
                 /\ call'.ok => bank' = bank
                 /\ ~call'.ok =>
                       /\ t2.retweet_time_bin = t.retweet_time_bin + 1
                       /\ t2.in_tree <=> t2.retweet_time_bin < NTimeBins
                       /\ t2.in_tree =>
                             /\ t2.retweet_next_rebin_time =
                                   t.creation_time + get_cat_threshold(t2.retweet_time_bin)
                             /\ ObsDenom * t2.rate =
                                   tweet_obs_values(t2.retweet_time_bin) * followers_total_rate
                       /\ \A id \in 1 .. Len(bank) : id # call'.arg => bank'[id] = bank[id]
       /\ \A id \in 1 .. Len(bank) :
             /\ bank'[id].retweet_time_bin >= bank[id].retweet_time_bin
             /\ bank'[id].in_tree => bank'[id].retweet_time_bin \in 0 .. (NTimeBins - 1)]_vars

\* the number of rejections the tweets of the bank have had: every
\* rejection moves one tweet one bin further
Rejections == SeqSum([id \in 1 .. Len(bank) |-> bank[id].retweet_time_bin])

\* C30: a weighted-sampling call with the aging checker terminates. Every
\* rejected candidate is evicted or moves to a strictly later bin with a
\* strictly later rebin time, so the retries are bounded (a bank of n tweets
\* sees at most n x n_bins rejections in all); the call returns a tweet
\* whose rebin time has not passed, or reports no selection when every
\* tweet has been evicted.
C30_PickTerminates ==
    /\ [][(pc = "sampling" /\ pc' = "sampling") =>
             /\ Rejections' = Rejections + 1
             /\ \E id \in 1 .. Len(bank) :
                   /\ \A o \in 1 .. Len(bank) : o # id => bank'[o] = bank[o]
                   /\ bank'[id].retweet_time_bin > bank[id].retweet_time_bin
                   /\ \/ ~bank'[id].in_tree
                      \/ bank'[id].retweet_next_rebin_time
                             > bank[id].retweet_next_rebin_time]_vars
    /\ [](Rejections <= Len(bank) * NTimeBins)
    /\ []((pc = "idle" /\ call.op = "pick_random_weighted") =>
             IF call.ok
             THEN /\ bank[call.val].in_tree
                  /\ time <= bank[call.val].retweet_next_rebin_time
             ELSE LiveTweets = {})
    /\ (pc = "sampling") ~> (pc = "idle")

\* C30 witness: a call has rejected candidates until the last tweet of a
\* full bank was evicted, and has reported no selection
C30_Witness ==
    /\ pc = "idle"
    /\ call.op = "pick_random_weighted"
    /\ ~call.ok
    /\ call.val \in 1 .. Len(bank)
    /\ Len(bank) = MaxTweets
    /\ LiveTweets = {}

\* C22: when a retweet action by reactor r takes place, every follower of r
\* (every agent whose follow-set contains r), and no other agent, receives
\* exactly one ring-buffer push recording (original_tweeter, time of the
\* retweet).
C22_RetweetReachesFollowers ==
    [][\A r \in EntityIds :
          network'.ent[r].n_retweets = network.ent[r].n_retweets + 1 =>
              \E original_tweeter \in EntityIds :
                  LET rt == [original_tweeter |-> original_tweeter, time |-> time]
                  IN  \A a \in EntityIds :
                          network'.ent[a].retweets =
                              IF r \in Range(network.ent[a].follow_set)
                              THEN retweets_add(network.ent[a].retweets, rt)
                              ELSE network.ent[a].retweets]_vars

\* C23: under the retweet-based follow model the target of a follow action
\* is the original tweeter of the actor's most recent ring-buffer retweet,
\* which can happen only if that retweet is less than RETWEET_WINDOW minutes
\* old, or a random existing agent; when the buffer is empty or its latest
\* retweet is stale the action still selects a random agent, never nobody.
C23_RetweetFollowFallsBack ==
    (pc = "act" /\ config.follow_model = RETWEET_FOLLOW) =>
        \A entity \in analyzer_select_entity(network.n_entities) :
            LET recent == check_recent(network.ent[entity].retweets)
                fresh  == /\ recent # << >>
                          /\ time - recent[1].time < RETWEET_WINDOW
            IN  FollowTargets(World, entity, N, time) =
                    (IF fresh THEN {recent[1].original_tweeter} ELSE {})
                        \cup RandInt(N)

\* C24: under the random follow model with at least two agents the target
\* of a follow action is always an existing agent other than the actor (a
\* draw equal to the actor is re-sampled, the follow is not dropped), so a
\* follow step whose target is not already followed adds exactly one edge.
C24_RandomFollowResamplesSelf ==
    (pc = "act" /\ config.follow_model = RANDOM_FOLLOW /\ N >= 2) =>
        \A entity \in analyzer_select_entity(network.n_entities) :
            \A entity_to_follow \in FollowTargets(World, entity, N, time) :
                LET w == action_follow_entity(World, entity, entity_to_follow)
                IN  /\ entity_to_follow \in 0 .. (N - 1)
                    /\ entity_to_follow # entity
                    /\ entity_to_follow \notin follow_set(entity) =>
                          /\ w.network.ent[entity].follow_set =
                                Append(network.ent[entity].follow_set, entity_to_follow)
                          /\ w.stats.n_follows = stats.n_follows + 1

\* the follows the claim calls rejected: of oneself, of an agent already
\* followed, or made when the follow-set pool is exhausted
RejectedFollow(entity, entity_to_follow) ==
    \/ entity_to_follow = entity
    \/ entity_to_follow \in follow_set(entity)
    \/ grower >= PoolSize

\* C25: a rejected follow (self-follow, duplicate, capacity exhausted)
\* leaves all follow-sets, follower-sets, categorizations and n_follows
\* unchanged and increments a rejection counter of the statistics, and the
\* step still proceeds: the action is followed by the time advance, which
\* does not move time backwards and increments n_steps.
C25_RejectedFollowIsNormal ==
    [][/\ pc = "act" =>
             \A entity \in analyzer_select_entity(network.n_entities) :
                 \A entity_to_follow \in FollowTargets(World, entity, N, time) \ {-1} :
                     RejectedFollow(entity, entity_to_follow) =>
                         LET w == action_follow_entity(World, entity, entity_to_follow)
                         IN  /\ w.network = network
                             /\ w.follow_ranks = follow_ranks
                             /\ w.tweet_ranks = tweet_ranks
                             /\ w.stats.n_follows = stats.n_follows
                             /\ \E counter \in DOMAIN stats \ {"n_follows"} :
                                   w.stats[counter] = stats[counter] + 1
       /\ pc = "act" => pc' = "advance"
       /\ pc = "advance" =>
             /\ time' >= time
             /\ stats'.n_steps = stats.n_steps + 1]_vars

AllTotalRates ==
    {tree.total_rate}
        \cup {tree.cats[i].total_rate : i \in 1 .. Len(tree.cats)}
        \cup UNION {{tree.cats[i].cats[k].total_rate : k \in 1 .. Len(tree.cats[i].cats)} :
                        i \in 1 .. Len(tree.cats)}

\* C27: a remove that would make a node's total_rate negative (the rate
\* used at the remove being larger than the rate that was added) is caught
\* by the assertion of remove: no node's total_rate is negative unless the
\* check of the remove just made has failed.
C27_NegativeRateDetected ==
    (\E r \in AllTotalRates : r < 0) =>
        /\ call.op = "remove"
        /\ call.ok
        /\ remove_check_failed(call.val)

\* C28: on every exit path of the simulation (normal termination, graceful
\* halt after an interrupt, immediate abort from the interrupt handler) the
\* output file stream has been closed when the process ends.
C28_ClosedOnEveryExit ==
    pc \in {"exited", "aborted"} => DATA_TIME = "closed"

\* the number of members held by the leaves under node, each leaf counted
\* on its own
RECURSIVE LeafCount(_, _)
LeafCount(node, level) ==
    IF level = 0
    THEN LeafNode_size(node)
    ELSE SeqSum([i \in 1 .. Len(node.cats) |-> LeafCount(node.cats[i], level - 1)])

\* node with every element but e taken out of its leaves
RECURSIVE Only(_, _, _)
Only(node, level, e) ==
    IF level = 0
    THEN [node EXCEPT !.elems = @ \cap {e}]
    ELSE [node EXCEPT !.cats =
             [i \in 1 .. Len(node.cats) |-> Only(node.cats[i], level - 1, e)]]

\* the outer bin a member of bin i is found in after a shift
ShiftedBin(i) == IF i + 1 < NBins THEN i + 1 ELSE NBins - 1

\* C31: shift_and_recalc_rates on a node whose classifier has max bins
\* leaves exactly max bins, bin 0 empty, and every member that was in bin i
\* in bin min(i+1, max-1); no member is lost or duplicated, the member count
\* of the node is unchanged, and afterwards every total_rate is the sum
\* below it.
C31_ShiftMovesEveryBin ==
    [][Shift =>
          /\ Len(tree'.cats) = NBins
          /\ Members(tree'.cats[1], TreeDepth - 1) = {}
          /\ tree'.cats[1].n_elems = 0
          /\ \A i \in 0 .. (Len(tree.cats) - 1) :
                 Members(tree.cats[i + 1], TreeDepth - 1)
                     \subseteq Members(tree'.cats[ShiftedBin(i) + 1], TreeDepth - 1)
          /\ Members(tree', TreeDepth) = Members(tree, TreeDepth)
          /\ \A e \in Elems :
                 LeafCount(Only(tree', TreeDepth, e), TreeDepth)
                     <= LeafCount(Only(tree, TreeDepth, e), TreeDepth)
          /\ tree'.n_elems = tree.n_elems
          /\ RatesConsistent(tree', TreeDepth, << >>)
          /\ tree'.total_rate = LeafRateSum(tree', TreeDepth, << >>)]_vars

\* C31 witness: a shift has just merged a bin that held members into a last
\* bin that held members too; all elements are in the tree
C31_Witness ==
    /\ call.op = "shift_and_recalc_rates"
    /\ call.arg >= 1
    /\ tree.cats[NBins].n_elems > call.arg
    /\ tree.n_elems = MaxElems
    /\ tree.total_rate > 0

\* the bins, the member counts and the members under node, without the
\* totals
RECURSIVE Membership(_, _)
Membership(node, level) ==
    IF level = 0
    THEN node.elems
    ELSE [n_elems |-> node.n_elems,
          cats    |-> [i \in 1 .. Len(node.cats) |->
                          Membership(node.cats[i], level - 1)]]

\* C32: after recalc_rates, whatever the cached totals and the current
\* rates were, every leaf's total_rate is its current per-member rate times
\* its member count and every internal node's total_rate is the sum of its
\* children's; recalc_rates changes no membership and no member count, and
\* it returns the node's new total.
C32_RecalcRebuildsTotals ==
    [][Recalc =>
          /\ RatesConsistent(tree', TreeDepth, << >>)
          /\ tree'.total_rate = LeafRateSum(tree', TreeDepth, << >>)
          /\ Membership(tree', TreeDepth) = Membership(tree, TreeDepth)
          /\ call'.val = tree'.total_rate]_vars

\* C32 witness: after the rates have changed for the last time,
\* recalc_rates has just returned the total of a tree that holds all
\* elements, two of them in one leaf
C32_Witness ==
    /\ call.op = "recalc_rates"
    /\ time = MaxRateChange
    /\ tree.n_elems = MaxElems
    /\ \E i \in 1 .. Len(tree.cats) : \E j \in 1 .. Len(tree.cats[i].cats) :
           LeafNode_size(tree.cats[i].cats[j]) >= 2
    /\ call.val = tree.total_rate
    /\ call.val >= MaxElems

\* the agents in the lists of the types, list by list
ListedAgents == [t \in 1 .. NTypes |-> Range(entity_lists[t])]

n_edges == SeqSum([a \in 1 .. max_entities |-> Len(network.ent[a - 1].follow_set)])

\* C34: in every reachable state stats.n_follows equals the sum over all
\* agents of the size of their follow-set; the counter moves exactly when
\* an edge is added to a follow-set.
C34_FollowsCountEdges ==
    /\ [](stats.n_follows = n_edges)
    /\ [][stats'.n_follows # stats.n_follows =>
             /\ stats'.n_follows = stats.n_follows + 1
             /\ \E a \in Created' : \E b \in Created' :
                    /\ network'.ent[a].follow_set = Append(network.ent[a].follow_set, b)
                    /\ \A c \in EntityIds \ {a} :
                           network'.ent[c].follow_set = network.ent[c].follow_set]_vars

\* size() of every internal node under (and including) node is the sum of
\* the size() of its children
RECURSIVE SizesConsistent(_, _)
SizesConsistent(node, level) ==
    IF level = 0
    THEN TRUE
    ELSE /\ Node_size(node, level) =
              SeqSum([i \in 1 .. Len(node.cats) |-> Node_size(node.cats[i], level - 1)])
         /\ \A i \in 1 .. Len(node.cats) : SizesConsistent(node.cats[i], level - 1)

\* C35: in every reachable state of a rate tree the member count of each
\* internal node equals the sum of the member counts of its children, and
\* hence the number of members in the leaves below it, after any sequence
\* of add, remove, shift_and_recalc_rates and transfer.
C35_SizesAddUp ==
    /\ SizesConsistent(tree, TreeDepth)
    /\ Node_size(tree, TreeDepth) = LeafCount(tree, TreeDepth)

====
